---- MODULE Spec2Model ----
(***************************************************************************)
(* Model of the employee-attrition analyser (Quddos/employee).             *)
(*                                                                         *)
(* src/app/api/analyze/route.ts  POST: validation, attrition statistics,   *)
(*                               department summaries, numeric column      *)
(*                               classification, z-score normalisation and *)
(*                               nearest-neighbour ranking.                *)
(* src/unnamed/part_000 1-183    the generate route: POST asks the Gemini  *)
(*                               service for a retention strategy, one     *)
(*                               candidate model after the other.          *)
(* src/app/page.tsx              the page: it loads a dataset, selects an  *)
(*                               employee and sends the two requests.      *)
(*                                                                         *)
(* Numbers.  Cell values are small integers, so every quantity the route   *)
(* computes is a rational number.  The model keeps them exact: a mean is   *)
(* sum/total, a variance is a numerator over total^3, and a distance is    *)
(* reported as the reduced fraction of its SQUARE (Math.sqrt is monotone,  *)
(* so order and equality of distances are those of the squares).  IEEE     *)
(* rounding of the doubles is not modelled.  Percentages are held in       *)
(* hundredths (3333 is 33.33), the grain toFixed(2) produces.              *)
(***************************************************************************)
EXTENDS Integers, Sequences, FiniteSets, TLC

VARIABLES
    body,       \* the JSON payload of the request being served
    response,   \* the NextResponse the handler returned, NoResponse before
    steps,      \* the phases of POST that ran, in order
    heap,       \* properties written on objects shared by every request
    history,    \* SpecSession: the requests the process served, in order
    env,        \* process.env as the generate route reads it
    gen,        \* the generate handler: request body, position, locals
    service,    \* the generateContent calls made, each with its outcome
    fnIn,       \* argument of the pure function under study (SpecRate)
    fnOut,      \* its result
    csvData,        \* page.tsx 53: the rows of the loaded dataset
    selectedIndex,  \* page.tsx 54: null or the index of the selected row
    analysis,       \* page.tsx 55: null or the payload of /api/analyze
    strategies,     \* page.tsx 56: null or the text of /api/generate
    pageStatus,     \* page.tsx 58, status: null or the tone of the line
    isAnalyzing,    \* page.tsx 59
    isGenerating,   \* page.tsx 60
    parsing,        \* the files Papa.parse is reading
    fetches         \* the requests of the page that wait for their response

analyzeVars == <<body, response, steps, heap, history, fnIn, fnOut>>
generateVars == <<env, gen, service>>
pageVars == <<csvData, selectedIndex, analysis, strategies, pageStatus, isAnalyzing, isGenerating, parsing, fetches>>
vars == <<body, response, steps, heap, history, env, gen, service, fnIn, fnOut, csvData, selectedIndex, analysis, strategies, pageStatus, isAnalyzing, isGenerating, parsing, fetches>>

(***************************************************************************)
(* Bounds of the model.                                                    *)
(***************************************************************************)
MaxRows == 3          \* exhaustive datasets have 0..MaxRows records
MinBigRows == 10      \* patterned datasets have MinBigRows..MaxBigRows
MaxBigRows == 12
MaxSmallTotal == 12   \* SpecRate: totals 1..MaxSmallTotal, every count
LargeTotal == 20001   \* SpecRate: one large total
MaxCell == 60         \* SpecCell: numbers and numerals 0..MaxCell
MaxRequests == 2      \* SpecSession: requests one process serves
MaxSessionRows == 2   \* SpecSession: datasets have 1..MaxSessionRows records
MaxParsing == 1       \* SpecPage: files Papa.parse reads at the same time

(***************************************************************************)
(* JavaScript values.  A cell is one of undefined, null, number, string,   *)
(* boolean.  A number carries its integer in n; s = "Infinity" marks the   *)
(* non-finite number JSON.parse yields for a literal such as 1e999 and     *)
(* s = "NaN" the result of undefined + 1.                                  *)
(***************************************************************************)
Undefined == [t |-> "undefined", n |-> 0, s |-> ""]
Null == [t |-> "null", n |-> 0, s |-> ""]
Num(k) == [t |-> "number", n |-> k, s |-> ""]
Infinite == [t |-> "number", n |-> 0, s |-> "Infinity"]
NaN == [t |-> "number", n |-> 0, s |-> "NaN"]
Str(x) == [t |-> "string", n |-> 0, s |-> x]
Bool(b) == [t |-> "boolean", n |-> IF b THEN 1 ELSE 0, s |-> ""]

\* value ?? fallback
Coalesce(value, fallback) ==
    IF value.t \in {"undefined", "null"} THEN fallback ELSE value

Digits == <<"0", "1", "2", "3", "4", "5", "6", "7", "8", "9">>

\* Number.prototype.toString of a non-negative integer
RECURSIVE NumeralOf(_)
NumeralOf(k) ==
    IF k < 10 THEN Digits[k + 1]
    ELSE NumeralOf(k \div 10) \o Digits[(k % 10) + 1]

MaxNumeral == 99

\* the canonical decimal numerals the model's strings can spell
NumeralTable == [k \in 0..MaxNumeral |-> NumeralOf(k)]
Numerals == {NumeralTable[k] : k \in 0..MaxNumeral}
IsNumeral(x) == x \in Numerals
NumeralValue(x) == CHOOSE k \in 0..MaxNumeral : NumeralTable[k] = x

\* String(value)
JSString(value) ==
    CASE value.t = "string" -> value.s
      [] value.t = "number" ->
            IF value.s # "" THEN value.s ELSE NumeralOf(value.n)
      [] value.t = "boolean" -> IF value.n = 1 THEN "true" ELSE "false"
      [] value.t = "null" -> "null"
      [] OTHER -> "undefined"

\* String.prototype.toLowerCase on the strings of the model
toLowerCase(x) ==
    CASE x = "Yes" -> "yes"
      [] x = "YES" -> "yes"
      [] x = "No" -> "no"
      [] x = "TRUE" -> "true"
      [] x = "True" -> "true"
      [] x = "Sales" -> "sales"
      [] x = "R&D" -> "r&d"
      [] x = "HR" -> "hr"
      [] x = "Department" -> "department"
      [] x = "Attrition" -> "attrition"
      [] x = "Age" -> "age"
      [] x = "Salary" -> "salary"
      [] x = "EmployeeNumber" -> "employeenumber"
      [] x = "EMPLOYEEID" -> "employeeid"
      [] x = "Infinity" -> "infinity"
      [] x = "Unknown Department" -> "unknown department"
      [] OTHER -> x

\* String.prototype.trim on the strings of the model
trim(x) ==
    CASE x = " 3 " -> "3"
      [] x = "yes " -> "yes"
      [] x = " gemini-pro " -> "gemini-pro"
      [] x = "  " -> ""
      [] OTHER -> x

\* Number(string): surrounding white space is skipped, the empty string is 0,
\* a numeral is its value, "Infinity" is infinite and anything else is NaN.
NumberOf(x) ==
    LET core == trim(x) IN
    CASE core = "" -> [kind |-> "finite", n |-> 0]
      [] IsNumeral(core) -> [kind |-> "finite", n |-> NumeralValue(core)]
      [] core = "Infinity" -> [kind |-> "infinite", n |-> 0]
      [] OTHER -> [kind |-> "nan", n |-> 0]

(***************************************************************************)
(* route.ts 33-55: field names, exclusion list and the two parsing rules.  *)
(***************************************************************************)
ATTRITION_FIELD == "Attrition"
DEPARTMENT_FIELD == "Department"
IGNORE_NUMERIC_COLUMNS == {"employeenumber", "employeeid"}

isNumericLike(value) ==
    CASE value.t \in {"null", "undefined"} -> FALSE
      [] value.t = "number" -> value.s = ""
      [] value.t = "string" ->
            LET trimmed == trim(value.s) IN
            IF trimmed = "" THEN FALSE
            ELSE NumberOf(trimmed).kind # "nan"
      [] OTHER -> FALSE

toNumber(value) ==
    CASE value.t = "number" -> IF value.s = "" THEN value.n ELSE 0
      [] value.t = "string" ->
            LET parsed == NumberOf(value.s) IN
            IF parsed.kind = "finite" THEN parsed.n ELSE 0
      [] OTHER -> 0

(***************************************************************************)
(* Records.  A dataset element is an object or null; an object holds its   *)
(* properties in the order the JSON text gave them.                        *)
(***************************************************************************)
Prop(k, v) == [k |-> k, v |-> v]
Obj(props) == [kind |-> "object", props |-> props]
NullRow == [kind |-> "null", props |-> << >>]
UndefinedRow == [kind |-> "undefined", props |-> << >>]

\* The properties earlier requests of the process have set on
\* Object.prototype, which every record inherits: route.ts 88-89 reaches it
\* as departmentStats["__proto__"], and undefined + 1 is NaN.
inheritedValue(key) ==
    IF <<"__proto__", key>> \in heap THEN NaN ELSE Undefined

\* row?.[key]: the record's own property, else the inherited one
Get(row, key) ==
    IF row.kind # "object" THEN Undefined
    ELSE IF \E i \in 1..Len(row.props) : row.props[i].k = key
         THEN row.props[CHOOSE i \in 1..Len(row.props) : row.props[i].k = key].v
         ELSE inheritedValue(key)

\* OrdinaryOwnPropertyKeys: keys that are array indices come first, in
\* ascending numeric order, then the other keys in creation order.
OwnPropertyOrder(keys) ==
    LET idx == {i \in 1..Len(keys) : IsNumeral(keys[i])}
        rest == {i \in 1..Len(keys) : ~IsNumeral(keys[i])}
        rankIdx(i) == Cardinality({j \in idx :
                          NumeralValue(keys[j]) < NumeralValue(keys[i])}) + 1
        rankRest(i) == Cardinality(idx) + Cardinality({j \in rest : j < i}) + 1
        rank(i) == IF i \in idx THEN rankIdx(i) ELSE rankRest(i)
    IN  [p \in 1..Len(keys) |-> keys[CHOOSE i \in 1..Len(keys) : rank(i) = p]]

\* Object.keys(row ?? {})
ObjectKeys(row) ==
    IF row.kind # "object" THEN << >>
    ELSE OwnPropertyOrder([i \in 1..Len(row.props) |-> row.props[i].k])

(***************************************************************************)
(* Inputs.  Pool holds the records datasets are built from: the three      *)
(* attrition spellings, labels that are array indices ("2", "1") or names  *)
(* every object inherits ("constructor"), a null record, numeric strings,  *)
(* a boolean and an unparsable string in a column that is numeric in most  *)
(* records, a column missing from some records, identifier columns in two  *)
(* spellings and a key that is an array index.                             *)
(***************************************************************************)
Pool == <<
    Obj(<<Prop("Department", Str("Sales")), Prop("Attrition", Str("Yes")),
          Prop("Age", Num(3))>>),
    Obj(<<Prop("Department", Str("Sales")), Prop("Attrition", Str("No")),
          Prop("Age", Num(1))>>),
    Obj(<<Prop("Department", Str("R&D")), Prop("Attrition", Str("No")),
          Prop("Age", Num(2))>>),
    Obj(<<Prop("Age", Str("2")), Prop("Department", Num(2)),
          Prop("Attrition", Str("TRUE")), Prop("Salary", Num(1))>>),
    Obj(<<Prop("Department", Str("1")), Prop("Attrition", Bool(TRUE)),
          Prop("Age", Num(3)), Prop("Salary", Num(2))>>),
    Obj(<<Prop("Department", Str("constructor")), Prop("Attrition", Num(1)),
          Prop("Age", Str("abc")), Prop("Salary", Num(2))>>),
    Obj(<<Prop("Attrition", Str("no")), Prop("Age", Bool(TRUE)),
          Prop("Salary", Num(1)), Prop("7", Str("x"))>>),
    NullRow,
    Obj(<<Prop("EmployeeNumber", Num(1)), Prop("EMPLOYEEID", Num(2)),
          Prop("Department", Str("HR")), Prop("Attrition", Str("yes ")),
          Prop("Age", Str(" 3 "))>>)
>>

PoolRows == {Pool[p] : p \in 1..Len(Pool)}

\* the dataset of the specification's scenario A
ScenarioA == <<
    Obj(<<Prop("Department", Str("Sales")), Prop("Attrition", Str("Yes")),
          Prop("Age", Num(30))>>),
    Obj(<<Prop("Department", Str("Sales")), Prop("Attrition", Str("No")),
          Prop("Age", Num(40))>>),
    Obj(<<Prop("Department", Str("R&D")), Prop("Attrition", Str("No")),
          Prop("Age", Num(35))>>)
>>

BigStrides == {1, 2, 4}

\* a patterned dataset: k records taken round the pool
patterned(k, start, stride) ==
    [i \in 1..k |-> Pool[((start + (i - 1) * stride) % Len(Pool)) + 1]]

\* a dataset with a column that holds the same number in every record
ConstantColumn == <<
    Obj(<<Prop("Department", Str("Sales")), Prop("Attrition", Str("Yes")),
          Prop("Age", Num(3)), Prop("Level", Num(2))>>),
    Obj(<<Prop("Department", Str("Sales")), Prop("Attrition", Str("No")),
          Prop("Age", Num(1)), Prop("Level", Num(2))>>),
    Obj(<<Prop("Department", Str("R&D")), Prop("Attrition", Str("No")),
          Prop("Age", Num(2)), Prop("Level", Num(2))>>),
    Obj(<<Prop("Department", Str("HR")), Prop("Attrition", Str("No")),
          Prop("Age", Num(1)), Prop("Level", Num(2))>>)
>>

\* body.index: a number (whole, or whole + 0.5 when half) or not a number
Index(whole, half) == [t |-> "number", whole |-> whole, half |-> half]
NotANumber == [t |-> "string", whole |-> 0, half |-> FALSE]

Indices(dataset) ==
    {Index(w, FALSE) : w \in -1..Len(dataset)}
    \cup {Index(w, TRUE) : w \in {-1, 0, Len(dataset)}}
    \cup {NotANumber}

\* body.dataset is an array, or something else
NotAnArray == [isArray |-> FALSE, rows |-> << >>]
ArrayOf(rows) == [isArray |-> TRUE, rows |-> rows]

Payload(dataset, index) == [dataset |-> dataset, index |-> index]

\* the request bodies of the model
IsBody(b) ==
    \/ \E k \in 0..MaxRows : \E d \in [1..k -> PoolRows] :
          \E i \in Indices(d) : b = Payload(ArrayOf(d), i)
    \/ \E k \in MinBigRows..MaxBigRows, start \in 0..(Len(Pool) - 1),
          stride \in BigStrides :
          \E i \in Indices(patterned(k, start, stride)) :
              b = Payload(ArrayOf(patterned(k, start, stride)), i)
    \/ \E i \in Indices(ScenarioA) : b = Payload(ArrayOf(ScenarioA), i)
    \/ \E i \in Indices(ConstantColumn) :
          b = Payload(ArrayOf(ConstantColumn), i)
    \/ b = Payload(NotAnArray, Index(0, FALSE))

(***************************************************************************)
(* route.ts 75-100: attrition count and department statistics.             *)
(***************************************************************************)
\* mutant: the value is compared without lower-casing it
attritedCaseSensitive(row) ==
    LET attrRaw == JSString(Coalesce(Get(row, "Attrition"), Str("")))
    IN  attrRaw = "yes" \/ attrRaw = "1" \/ attrRaw = "true"

\* route.ts 80-81: the record counts as attrited
attrited(row) ==
    LET attrRaw ==
            toLowerCase(JSString(Coalesce(Get(row, ATTRITION_FIELD), Str(""))))
    IN  attrRaw = "yes" \/ attrRaw = "1" \/ attrRaw = "true"

\* route.ts 84: the department label of the record
departmentOf(row) ==
    JSString(Coalesce(Get(row, DEPARTMENT_FIELD), Str("Unknown Department")))

\* Property names every object literal inherits from Object.prototype; each
\* names a function or an object, so departmentStats[name] is truthy before
\* any record was counted.  (A property an earlier request has set on
\* Object.prototype holds NaN, which is not truthy.)
InheritedKeys ==
    {"constructor", "__proto__", "toString", "toLocaleString", "valueOf",
     "hasOwnProperty", "isPrototypeOf", "propertyIsEnumerable"}

hasOwn(departmentStats, department) ==
    \E i \in 1..Len(departmentStats) :
        departmentStats[i].department = department

ownAt(departmentStats, department) ==
    CHOOSE i \in 1..Len(departmentStats) :
        departmentStats[i].department = department

\* route.ts 79-90, the body of dataset.forEach for one row.  acc holds
\* attritionCount, departmentStats (own properties in creation order) and
\* writes (the properties set on inherited objects).
forEachBody(acc, row) ==
    LET isAttrited == attrited(row)
        department == departmentOf(row)
        count1 == IF isAttrited THEN acc.attritionCount + 1
                  ELSE acc.attritionCount
        own == hasOwn(acc.departmentStats, department)
        inherited == ~own /\ department \in InheritedKeys
        \* route.ts 85-87
        created ==
            IF own \/ inherited THEN acc.departmentStats
            ELSE Append(acc.departmentStats,
                        [department |-> department, count |-> 0, attr |-> 0])
        \* route.ts 88-89
        counted ==
            IF inherited THEN created
            ELSE LET i == ownAt(created, department) IN
                 [created EXCEPT
                    ![i].count = @ + 1,
                    ![i].attr = IF isAttrited THEN @ + 1 ELSE @]
        written ==
            IF ~inherited THEN acc.writes
            ELSE acc.writes \cup {<<department, "count">>}
                 \cup (IF isAttrited THEN {<<department, "attr">>} ELSE {})
    IN  [attritionCount |-> count1, departmentStats |-> counted,
         writes |-> written]

RECURSIVE forEach(_, _, _)
forEach(dataset, i, acc) ==
    IF i > Len(dataset) THEN acc
    ELSE forEach(dataset, i + 1, forEachBody(acc, dataset[i]))

\* route.ts 76-90
statistics(dataset) ==
    forEach(dataset, 1,
            [attritionCount |-> 0, departmentStats |-> << >>, writes |-> {}])

\* mutant: the percentage is cut to two decimals instead of rounded
percent2Truncated(part, whole) == (10000 * part) \div whole

\* Number(((part / whole) * 100).toFixed(2)), in hundredths of a percent:
\* the nearest hundredth, a tie going up.
percent2(part, whole) == (20000 * part + whole) \div (2 * whole)

\* Object.entries(departmentStats)
ObjectEntries(departmentStats) ==
    LET keys == [i \in 1..Len(departmentStats) |->
                    departmentStats[i].department]
        ordered == OwnPropertyOrder(keys)
    IN  [p \in 1..Len(ordered) |->
            departmentStats[ownAt(departmentStats, ordered[p])]]

\* route.ts 94-98
toSummary(entry) ==
    [department |-> entry.department, count |-> entry.count,
     attritionRate |-> percent2(entry.attr, entry.count)]

\* mutant: the comparator orders by ascending rate
compareDepartmentsAscending(a, b) == a.attritionRate - b.attritionRate

\* route.ts 99, the comparator
compareDepartments(a, b) == b.attritionRate - a.attritionRate

\* Array.prototype.sort is stable: an element goes after every element the
\* comparator does not place behind it.
insertDepartment(sorted, x) ==
    LET p == Cardinality({i \in 1..Len(sorted) :
                            compareDepartments(sorted[i], x) <= 0})
    IN  SubSeq(sorted, 1, p) \o <<x>> \o SubSeq(sorted, p + 1, Len(sorted))

RECURSIVE sortDepartments(_, _, _)
sortDepartments(list, i, sorted) ==
    IF i > Len(list) THEN sorted
    ELSE sortDepartments(list, i + 1, insertDepartment(sorted, list[i]))

TopDepartmentsLimit == 5

\* seq.slice(0, limit)
slice(seq, limit) == SubSeq(seq, 1, IF Len(seq) < limit THEN Len(seq) ELSE limit)

\* route.ts 93-99: the summaries, sorted, before .slice(0, 5)
departmentSummaries(departmentStats) ==
    LET entries == ObjectEntries(departmentStats)
        mapped == [i \in 1..Len(entries) |-> toSummary(entries[i])]
    IN  sortDepartments(mapped, 1, << >>)

\* route.ts 93-100
topDepartmentsOf(departmentStats) ==
    slice(departmentSummaries(departmentStats), TopDepartmentsLimit)

(***************************************************************************)
(* route.ts 102-107: numeric column classification.                        *)
(***************************************************************************)
\* mutant: the candidates are the keys of the last record
candidateColumnsOfLast(dataset) == ObjectKeys(dataset[Len(dataset)])

\* route.ts 102
candidateColumnsOf(dataset) == ObjectKeys(dataset[1])

\* route.ts 105
numericCountOf(dataset, column) ==
    Cardinality({r \in 1..Len(dataset) : isNumericLike(Get(dataset[r], column))})

\* mutant: the share has to exceed 0.7
isNumericColumnAboveThreshold(dataset, column) ==
    IF toLowerCase(column) \in IGNORE_NUMERIC_COLUMNS THEN FALSE
    ELSE 10 * numericCountOf(dataset, column) > 7 * Len(dataset)

\* mutant: the column name is looked up without lower-casing it
isNumericColumnCaseSensitive(dataset, column) ==
    IF column \in IGNORE_NUMERIC_COLUMNS THEN FALSE
    ELSE 10 * numericCountOf(dataset, column) >= 7 * Len(dataset)

\* route.ts 104-106, the filter predicate; numericCount / total >= 0.7
isNumericColumn(dataset, column) ==
    IF toLowerCase(column) \in IGNORE_NUMERIC_COLUMNS THEN FALSE
    ELSE 10 * numericCountOf(dataset, column) >= 7 * Len(dataset)

\* route.ts 103-107
numericColsOf(dataset) ==
    SelectSeq(candidateColumnsOf(dataset),
              LAMBDA column : isNumericColumn(dataset, column))

(***************************************************************************)
(* route.ts 109-129: normalisation, in exact rationals.  With total = n:   *)
(*   means[c]            = sums[c] / n                                     *)
(*   value - means[c]    = centered[r][c] / n                              *)
(*   variance[c]         = squares[c] / n^3                                *)
(*   stdDevs[c]          = sqrt(variance[c]), or 1 when that is 0          *)
(***************************************************************************)
RECURSIVE SumTo(_, _)
SumTo(f, k) == IF k = 0 THEN 0 ELSE SumTo(f, k - 1) + f[k]

\* route.ts 109
numericMatrixOf(dataset, numericCols) ==
    [r \in 1..Len(dataset) |->
        [c \in 1..Len(numericCols) |->
            toNumber(Get(dataset[r], numericCols[c]))]]

\* route.ts 111-114, the numerators of the means
sumsOf(numericMatrix, width) ==
    [c \in 1..width |->
        SumTo([r \in 1..Len(numericMatrix) |-> numericMatrix[r][c]],
              Len(numericMatrix))]

\* n * (value - mean)
centeredOf(numericMatrix, width) ==
    LET n == Len(numericMatrix)
        sums == sumsOf(numericMatrix, width)
    IN  [r \in 1..n |-> [c \in 1..width |-> n * numericMatrix[r][c] - sums[c]]]

\* route.ts 118-122, n^3 * variance
squaresOf(numericMatrix, width) ==
    LET n == Len(numericMatrix)
        centered == centeredOf(numericMatrix, width)
    IN  [c \in 1..width |->
            SumTo([r \in 1..n |-> centered[r][c] * centered[r][c]], n)]

\* route.ts 124: std > 0 ? std : 1
stdIsPositive(squares, c) == squares[c] > 0

\* mutant: the sample variance, the squared deviations divided by n - 1
diffSquaredSample(centered, squares, r, t, c) ==
    LET n == Len(centered)
        d == centered[r][c] - centered[t][c]
    IN  IF stdIsPositive(squares, c)
        THEN [num |-> d * d * (n - 1), den |-> squares[c]]
        ELSE [num |-> d * d, den |-> n * n]

\* route.ts 127-129 and 137-138: the square of one coordinate's difference,
\* ((value - mean) / std - (target - mean) / std)^2, as num / den
diffSquared(centered, squares, r, t, c) ==
    LET n == Len(centered)
        d == centered[r][c] - centered[t][c]
    IN  IF stdIsPositive(squares, c)
        THEN [num |-> d * d * n, den |-> squares[c]]
        ELSE [num |-> d * d, den |-> n * n]

RECURSIVE ProductTo(_, _)
ProductTo(f, k) == IF k = 0 THEN 1 ELSE ProductTo(f, k - 1) * f[k]

\* mutant: the mean of the squared differences instead of their sum
distanceSquaredMean(centered, squares, width, r, t) ==
    LET term(c) == diffSquared(centered, squares, r, t, c)
        dens == [c \in 1..width |-> term(c).den]
        common == ProductTo(dens, width)
    IN  [num |-> SumTo([c \in 1..width |->
                            term(c).num * (common \div term(c).den)], width),
         den |-> common * width]

\* route.ts 135-140: the squared distance of row r to row t, over the
\* denominator all rows of the request share
distanceSquared(centered, squares, width, r, t) ==
    LET term(c) == diffSquared(centered, squares, r, t, c)
        dens == [c \in 1..width |-> term(c).den]
        common == ProductTo(dens, width)
    IN  [num |-> SumTo([c \in 1..width |->
                            term(c).num * (common \div term(c).den)], width),
         den |-> common]

\* route.ts 143, the comparator (the denominators are equal)
compareDistances(a, b) == a.distance.num - b.distance.num

\* mutant: a sort that is not stable, an element going before its ties
insertDistanceBeforeTies(sorted, x) ==
    LET p == Cardinality({i \in 1..Len(sorted) :
                            compareDistances(sorted[i], x) < 0})
    IN  SubSeq(sorted, 1, p) \o <<x>> \o SubSeq(sorted, p + 1, Len(sorted))

insertDistance(sorted, x) ==
    LET p == Cardinality({i \in 1..Len(sorted) :
                            compareDistances(sorted[i], x) <= 0})
    IN  SubSeq(sorted, 1, p) \o <<x>> \o SubSeq(sorted, p + 1, Len(sorted))

RECURSIVE sortDistances(_, _, _)
sortDistances(list, i, sorted) ==
    IF i > Len(list) THEN sorted
    ELSE sortDistances(list, i + 1, insertDistance(sorted, list[i]))

\* array[index] is an element only for an integer index within the array;
\* for any other number it is undefined
isElement(index, length) ==
    ~index.half /\ index.whole >= 0 /\ index.whole < length

\* route.ts 131: whether normalizedMatrix[index] is a row
targetIsRow(index, length) == isElement(index, length)

\* route.ts 133-143; t is the target's position, entry.index counts from 0
distancesOf(dataset, numericCols, t) ==
    LET width == Len(numericCols)
        numericMatrix == numericMatrixOf(dataset, numericCols)
        centered == centeredOf(numericMatrix, width)
        squares == squaresOf(numericMatrix, width)
        mapped == [r \in 1..Len(dataset) |->
                    [index |-> r - 1,
                     distance |-> distanceSquared(centered, squares, width, r, t),
                     row |-> dataset[r]]]
    IN  sortDistances(mapped, 1, << >>)

SimilarLimit == 10

\* mutant: the target is not filtered out
isOtherKeepsTarget(entry, index) == TRUE

\* route.ts 145, the filter predicate
isOther(entry, index) == index.half \/ entry.index # index.whole

\* mutant: the ranking is cut to its first entries before the target is
\* removed
similarOfCutFirst(distances, index) ==
    SelectSeq(slice(distances, SimilarLimit),
              LAMBDA entry : isOther(entry, index))

\* route.ts 145
similarOf(distances, index) ==
    slice(SelectSeq(distances, LAMBDA entry : isOther(entry, index)),
          SimilarLimit)

(***************************************************************************)
(* route.ts 57-163: the handler.                                           *)
(***************************************************************************)
NoBody == [dataset |-> NotAnArray, index |-> NotANumber]
NoSummary ==
    [total |-> 0, attritionRate |-> 0, topDepartments |-> << >>,
     numericCols |-> << >>]

\* NextResponse.json({ error }, { status })
errorResponse(status, message) ==
    [status |-> status, keys |-> {"error"}, error |-> message,
     summary |-> NoSummary, employee |-> UndefinedRow, similar |-> << >>]

NoResponse == errorResponse(0, "")

\* route.ts 147-158
okResponse(summary, employee, similar) ==
    [status |-> 200, keys |-> {"summary", "employee", "similar"}, error |-> "",
     summary |-> summary, employee |-> employee, similar |-> similar]

\* mutant: the index is taken as counted from 1
atOneBased(dataset, index) ==
    IF ~index.half /\ index.whole \in 1..Len(dataset)
    THEN dataset[index.whole] ELSE UndefinedRow

\* route.ts 154: dataset[index]
at(dataset, index) ==
    IF isElement(index, Len(dataset)) THEN dataset[index.whole + 1]
    ELSE UndefinedRow

\* mutant: the upper bound is tested with > instead of >=
outOfBoundsOffByOne(index, length) == index.whole < 0 \/ index.whole > length

\* route.ts 71
outOfBounds(index, length) == index.whole < 0 \/ index.whole >= length

\* mutant: row[column] without the optional chaining of route.ts 109, which
\* throws on a null record as soon as there is a numeric column
rankingThrowsOnNullRow(dataset, numericCols, index) ==
    \/ ~targetIsRow(index, Len(dataset)) /\ Len(dataset) > 0
          /\ Len(numericCols) > 0
    \/ Len(numericCols) > 0
          /\ \E r \in 1..Len(dataset) : dataset[r].kind # "object"

\* route.ts 137: target[columnIndex] is evaluated once per cell of
\* normalizedMatrix and throws a TypeError when target is undefined
rankingThrows(dataset, numericCols, index) ==
    ~targetIsRow(index, Len(dataset)) /\ Len(dataset) > 0
    /\ Len(numericCols) > 0

\* route.ts 75-158: the response to a validated request, the phases that
\* ran and the properties written on inherited objects
analyze(dataset, index) ==
    LET total == Len(dataset)
        stats == statistics(dataset)
        attritionRate == percent2(stats.attritionCount, total)
        topDepartments == topDepartmentsOf(stats.departmentStats)
        numericCols == numericColsOf(dataset)
        distances == distancesOf(dataset, numericCols,
                                 IF targetIsRow(index, total)
                                 THEN index.whole + 1 ELSE 0)
        similar == similarOf(distances, index)
        summary == [total |-> total, attritionRate |-> attritionRate,
                    topDepartments |-> topDepartments,
                    numericCols |-> numericCols]
    IN  IF rankingThrows(dataset, numericCols, index)
        THEN [response |-> errorResponse(500, "Unable to analyze dataset."),
              steps |-> <<"validate", "statistics", "classify", "normalize",
                          "rank">>,
              writes |-> stats.writes]
        ELSE [response |-> okResponse(summary, at(dataset, index), similar),
              steps |-> <<"validate", "statistics", "classify", "normalize",
                          "rank", "respond">>,
              writes |-> stats.writes]

rejected(message) ==
    [response |-> errorResponse(400, message), steps |-> <<"validate">>,
     writes |-> {}]

\* route.ts 59-162
handle(payload) ==
    IF ~payload.dataset.isArray \/ payload.index.t # "number"
    THEN rejected("Payload must include dataset[] and numeric index.")
    ELSE IF Len(payload.dataset.rows) = 0
    THEN rejected("Dataset is empty.")
    ELSE IF outOfBounds(payload.index, Len(payload.dataset.rows))
    THEN rejected("Selected employee index is out of bounds.")
    ELSE analyze(payload.dataset.rows, payload.index)

(***************************************************************************)
(* part_000 75-183: the generate route.                                    *)
(***************************************************************************)
\* part_000 75-84
MODEL_FALLBACK_CHAIN ==
    <<"gemini-2.0-flash", "gemini-2.0-flash-exp", "gemini-1.5-flash-latest",
      "gemini-1.5-flash", "gemini-1.5-flash-8b", "gemini-1.5-pro",
      "gemini-pro", "gemini-1.0-pro-latest">>

\* A value thrown by the SDK: an Error with a message, or something that is
\* not an Error.  notFound tells what the service answered: 404, the model
\* does not exist.  The handler sees isError and message only.
Thrown(isError, message, notFound) ==
    [isError |-> isError, message |-> message, notFound |-> notFound]

NoError == Thrown(FALSE, "", FALSE)

\* /404/.test(message) and /model/i.test(message) on the messages below
matches404(message) ==
    message \in {"[404 Not Found] models/gemini is not found",
                 "[404 Not Found] Model is not supported for generateContent",
                 "[404 Not Found] no such endpoint",
                 "404 model"}

matchesModelIgnoringCase(message) ==
    message \in {"[404 Not Found] models/gemini is not found",
                 "[404 Not Found] Model is not supported for generateContent",
                 "[503 Service Unavailable] The model is overloaded",
                 "404 model"}

\* what generateContent and response.text() can throw
ServiceErrors ==
    {Thrown(TRUE, "[404 Not Found] models/gemini is not found", TRUE),
     Thrown(TRUE, "[404 Not Found] Model is not supported for generateContent",
            TRUE),
     Thrown(TRUE, "[404 Not Found] no such endpoint", FALSE),
     Thrown(TRUE, "[503 Service Unavailable] The model is overloaded", FALSE),
     Thrown(TRUE, "fetch failed", FALSE),
     Thrown(FALSE, "404 model", FALSE)}

\* the texts a successful generation returns
ServiceTexts == {"1. Offer a mentoring plan", ""}

\* part_000 86-91
normalizeErrorMessage(error) ==
    IF error.isError THEN error.message
    ELSE "Unexpected error occurred while contacting Gemini."

\* mutant: one of the two patterns is enough
isModelNotFoundEither(error) ==
    IF ~error.isError THEN FALSE
    ELSE matches404(error.message) \/ matchesModelIgnoringCase(error.message)

\* part_000 93-96
isModelNotFound(error) ==
    IF ~error.isError THEN FALSE
    ELSE matches404(error.message) /\ matchesModelIgnoringCase(error.message)

\* process.env: a variable is a string, or not set
Unset == [set |-> FALSE, value |-> ""]
SetTo(value) == [set |-> TRUE, value |-> value]

\* part_000 115: process.env.GEMINI_MODEL?.trim()
preferredModelOf(environment) ==
    IF environment.GEMINI_MODEL.set
    THEN SetTo(trim(environment.GEMINI_MODEL.value))
    ELSE Unset

\* Array.from(new Set(list)): the first occurrence of every element, in order
RECURSIVE distinct(_, _)
distinct(list, kept) ==
    IF list = << >> THEN kept
    ELSE IF \E i \in 1..Len(kept) : kept[i] = Head(list)
         THEN distinct(Tail(list), kept)
         ELSE distinct(Tail(list), Append(kept, Head(list)))

\* mutant: the list is used as built, without new Set
modelCandidatesWithRepeats(environment) ==
    LET preferredModel == preferredModelOf(environment)
    IN  IF preferredModel.set /\ preferredModel.value # ""
        THEN <<preferredModel.value>> \o MODEL_FALLBACK_CHAIN
        ELSE MODEL_FALLBACK_CHAIN

\* part_000 116-118: the preferred model, when it is a non-empty string,
\* then the chain, duplicates removed
modelCandidatesOf(environment) ==
    LET preferredModel == preferredModelOf(environment)
        listed == IF preferredModel.set /\ preferredModel.value # ""
                  THEN <<preferredModel.value>> \o MODEL_FALLBACK_CHAIN
                  ELSE MODEL_FALLBACK_CHAIN
    IN  distinct(listed, << >>)

\* The request body of the generate route.  parses: request.json() gave an
\* object; employee, analysis: the property is truthy; promptThrows:
\* buildPrompt throws on the payload (part_000 42: entry.distance.toFixed
\* with a distance that is null).
GenerateBody(parses, hasEmployee, hasAnalysis, promptThrows) ==
    [parses |-> parses, employee |-> hasEmployee, analysis |-> hasAnalysis,
     promptThrows |-> promptThrows]

GenerateBodies ==
    {GenerateBody(TRUE, e, a, FALSE) : e \in BOOLEAN, a \in BOOLEAN}
    \cup {GenerateBody(TRUE, TRUE, TRUE, TRUE),
          GenerateBody(FALSE, FALSE, FALSE, FALSE)}

\* NextResponse.json bodies of the generate route; error is the message in
\* the parts the template literal of part_000 173-175 joins
generateResponse(status, keys, strategy, model, error, attempts) ==
    [status |-> status, keys |-> keys, strategy |-> strategy, model |-> model,
     error |-> error, attempts |-> attempts]

NoGenerateResponse == generateResponse(0, {}, "", "", << >>, << >>)

\* part_000 153-158
strategyResponse(text, modelName) ==
    generateResponse(200, {"strategy", "model"}, text, modelName, << >>, << >>)

\* part_000 104, 109-112, 181
generateError(status, message) ==
    generateResponse(status, {"error"}, "", "", <<message>>, << >>)

\* mutant: only the attempt that failed last is reported
attemptFailedLastOnly(error, attemptErrors) ==
    generateResponse(502, {"error", "attempts"}, "", "",
                     <<normalizeErrorMessage(error)>>,
                     <<attemptErrors[Len(attemptErrors)]>>)

\* part_000 168-169
attemptFailed(error, attemptErrors) ==
    generateResponse(502, {"error", "attempts"}, "", "",
                     <<normalizeErrorMessage(error)>>, attemptErrors)

\* part_000 173-178
modelUnavailable(lastError, attemptErrors) ==
    generateResponse(502, {"error", "attempts"}, "", "",
        <<"Gemini model unavailable. Set GEMINI_MODEL to a supported value (e.g. \"gemini-1.5-flash-latest\") or verify access in Google AI Studio.">>
        \o (IF lastError # NoError
            THEN <<"Last error: ", normalizeErrorMessage(lastError)>>
            ELSE << >>),
        attemptErrors)

\* the handler's frame: the body it was given, where it stands, its locals
\* and the response it returned
Frame(payload, pc, candidates, position, lastError, attemptErrors, answer) ==
    [body |-> payload, pc |-> pc, modelCandidates |-> candidates,
     position |-> position, lastError |-> lastError,
     attemptErrors |-> attemptErrors, response |-> answer]

NoEnv == [GOOGLE_API_KEY |-> Unset, GEMINI_MODEL |-> Unset]

generateIdle ==
    /\ env = NoEnv
    /\ gen = Frame(GenerateBody(FALSE, FALSE, FALSE, FALSE), "none", << >>, 0,
                   NoError, << >>, NoGenerateResponse)
    /\ service = << >>

\* page.tsx 55: analysis is null
NoAnalysis == errorResponse(0, "")

\* page.tsx 56: the strategies shown.  text is the state's value; of is the
\* analysis the request carried that the text answers (NoAnalysis for null).
Strategies(text, of) == [text |-> text, of |-> of]
NoStrategies == Strategies(Null, NoAnalysis)

\* page.tsx 53-60: the state of the page before it is mounted
pageIdle ==
    /\ csvData = << >>
    /\ selectedIndex = Null
    /\ analysis = NoAnalysis
    /\ strategies = NoStrategies
    /\ pageStatus = Null
    /\ isAnalyzing = FALSE
    /\ isGenerating = FALSE
    /\ parsing = {}
    /\ fetches = {}

NoCall == [count |-> 0, total |-> 0]

Init ==
    /\ IsBody(body)
    /\ response = NoResponse
    /\ steps = << >>
    /\ heap = {}
    /\ history = << >>
    /\ fnIn = NoCall
    /\ fnOut = -1
    /\ generateIdle
    /\ pageIdle

\* POST /api/analyze serves the request
POST ==
    /\ fnIn = NoCall
    /\ response = NoResponse
    /\ LET out == handle(body) IN
        /\ response' = out.response
        /\ steps' = out.steps
        /\ heap' = heap \cup out.writes
    /\ UNCHANGED <<body, history, fnIn, fnOut>>
    /\ UNCHANGED generateVars
    /\ UNCHANGED pageVars

Next == POST

Spec == Init /\ [][Next]_vars

(***************************************************************************)
(* The rate expression of route.ts 92 and 97 on its own: it depends on the *)
(* number of attrited records and the number of records only.              *)
(***************************************************************************)
RateCalls ==
    {[count |-> c, total |-> t] : c \in 0..MaxSmallTotal, t \in 1..MaxSmallTotal}
    \cup {[count |-> c, total |-> LargeTotal] :
            c \in {0, 1, 2, LargeTotal - 1, LargeTotal}}

InitRate ==
    /\ body = NoBody
    /\ response = NoResponse
    /\ steps = << >>
    /\ heap = {}
    /\ history = << >>
    /\ fnIn \in {call \in RateCalls : call.count <= call.total}
    /\ fnOut = -1
    /\ generateIdle
    /\ pageIdle

\* route.ts 92
AttritionRate ==
    /\ fnIn # NoCall
    /\ fnOut = -1
    /\ generateIdle
    /\ pageIdle
    /\ fnOut' = percent2(fnIn.count, fnIn.total)
    /\ UNCHANGED <<body, response, steps, heap, history, fnIn>>
    /\ UNCHANGED generateVars
    /\ UNCHANGED pageVars

NextRate == AttritionRate

SpecRate == InitRate /\ [][NextRate]_vars

(***************************************************************************)
(* The two parsing rules of route.ts 37-55 on their own, applied to one    *)
(* cell value.                                                             *)
(***************************************************************************)
CellValues ==
    {Undefined, Null, Infinite, NaN, Bool(TRUE), Bool(FALSE)}
    \cup {Num(k) : k \in 0..MaxCell}
    \cup {Str(NumeralTable[k]) : k \in 0..MaxCell}
    \cup {Str(x) : x \in {"", "  ", " 3 ", "abc", "Infinity", "yes ", "Yes"}}

NoParse == [numericLike |-> FALSE, number |-> -1]

InitCell ==
    /\ body = NoBody
    /\ response = NoResponse
    /\ steps = << >>
    /\ heap = {}
    /\ history = << >>
    /\ fnIn \in CellValues
    /\ fnOut = NoParse
    /\ generateIdle
    /\ pageIdle

\* route.ts 105 and 109: the classifier and the coercion see the cell
ParseCell ==
    /\ fnOut = NoParse
    /\ fnOut' = [numericLike |-> isNumericLike(fnIn), number |-> toNumber(fnIn)]
    /\ UNCHANGED <<body, response, steps, heap, history, fnIn>>
    /\ UNCHANGED generateVars
    /\ UNCHANGED pageVars

NextCell == ParseCell

SpecCell == InitCell /\ [][NextCell]_vars

(***************************************************************************)
(* POST /api/generate.  The handler runs to its first await, then once per *)
(* answer of the service: generateContent resolves, or it rejects and the  *)
(* catch block of part_000 159-170 decides whether the loop goes on.       *)
(***************************************************************************)
Environments ==
    {[GOOGLE_API_KEY |-> key, GEMINI_MODEL |-> name] :
        key \in {Unset, SetTo(""), SetTo("AIza-key")},
        name \in {Unset, SetTo(""), SetTo("  "), SetTo("gemini-1.5-flash"),
                  SetTo(" gemini-pro "), SetTo("gemini-2.0-flash"),
                  SetTo("tuned-model")}}

Pending == [kind |-> "pending", text |-> "", error |-> NoError]
Resolved(text) == [kind |-> "text", text |-> text, error |-> NoError]
Rejected(error) == [kind |-> "error", text |-> "", error |-> error]

\* part_000 128-150: model.generateContent(...) for modelName is under way
Call(modelName) == [model |-> modelName, outcome |-> Pending]

\* the outcome of the call under way
settle(calls, outcome) == [calls EXCEPT ![Len(calls)].outcome = outcome]

InitGenerate ==
    /\ body = NoBody
    /\ response = NoResponse
    /\ steps = << >>
    /\ heap = {}
    /\ history = << >>
    /\ fnIn = NoCall
    /\ fnOut = -1
    /\ env \in Environments
    /\ \E b \in GenerateBodies :
         gen = Frame(b, "received", << >>, 0, NoError, << >>,
                     NoGenerateResponse)
    /\ service = << >>
    /\ pageIdle

\* the handler returns
return(answer) == gen' = [gen EXCEPT !.pc = "done", !.response = answer]

\* part_000 98-150: from the request to the first generateContent call
GeneratePOST ==
    /\ gen.pc = "received"
    /\ IF ~gen.body.parses
       THEN \* request.json() throws, part_000 179-182
            /\ return(generateError(500,
                    normalizeErrorMessage(
                        Thrown(TRUE, "Unexpected end of JSON input", FALSE))))
            /\ UNCHANGED service
       ELSE IF ~gen.body.employee \/ ~gen.body.analysis
       THEN /\ return(generateError(400,
                    "Request must include employee and analysis payloads."))
            /\ UNCHANGED service
       ELSE IF ~env.GOOGLE_API_KEY.set \/ env.GOOGLE_API_KEY.value = ""
       THEN /\ return(generateError(500,
                    "Missing GOOGLE_API_KEY. Set it in your environment or .env.local file."))
            /\ UNCHANGED service
       ELSE IF gen.body.promptThrows
       THEN \* buildPrompt throws, part_000 120 and 179-182
            /\ return(generateError(500,
                    normalizeErrorMessage(
                        Thrown(TRUE,
                               "Cannot read properties of null (reading 'toFixed')",
                               FALSE))))
            /\ UNCHANGED service
       ELSE LET modelCandidates == modelCandidatesOf(env) IN
            /\ gen' = [gen EXCEPT !.pc = "awaiting",
                                  !.modelCandidates = modelCandidates,
                                  !.position = 1]
            /\ service' = <<Call(modelCandidates[1])>>
    /\ UNCHANGED env
    /\ UNCHANGED analyzeVars
    /\ UNCHANGED pageVars

\* part_000 140-158: generateContent resolves and response.text() returns
GenerateContentResolves ==
    /\ gen.pc = "awaiting"
    /\ \E text \in ServiceTexts :
         /\ return(strategyResponse(text, gen.modelCandidates[gen.position]))
         /\ service' = settle(service, Resolved(text))
    /\ UNCHANGED env
    /\ UNCHANGED analyzeVars
    /\ UNCHANGED pageVars

\* part_000 159-178: generateContent or response.text() throws
GenerateContentRejects ==
    /\ gen.pc = "awaiting"
    /\ \E error \in ServiceErrors :
         LET modelName == gen.modelCandidates[gen.position]
             attemptErrors ==
                Append(gen.attemptErrors,
                       [model |-> modelName,
                        message |-> normalizeErrorMessage(error)])
         IN  IF isModelNotFound(error)
             THEN IF gen.position < Len(gen.modelCandidates)
                  THEN \* continue: the next candidate is called
                       /\ gen' = [gen EXCEPT !.lastError = error,
                                             !.attemptErrors = attemptErrors,
                                             !.position = @ + 1]
                       /\ service' =
                            Append(settle(service, Rejected(error)),
                                   Call(gen.modelCandidates[gen.position + 1]))
                  ELSE \* the loop is over, part_000 173-178
                       /\ gen' = [gen EXCEPT
                                    !.pc = "done",
                                    !.lastError = error,
                                    !.attemptErrors = attemptErrors,
                                    !.response =
                                        modelUnavailable(error, attemptErrors)]
                       /\ service' = settle(service, Rejected(error))
             ELSE /\ gen' = [gen EXCEPT
                                !.pc = "done",
                                !.lastError = error,
                                !.attemptErrors = attemptErrors,
                                !.response = attemptFailed(error, attemptErrors)]
                  /\ service' = settle(service, Rejected(error))
    /\ UNCHANGED env
    /\ UNCHANGED analyzeVars
    /\ UNCHANGED pageVars

NextGenerate ==
    \/ GeneratePOST
    \/ GenerateContentResolves
    \/ GenerateContentRejects

SpecGenerate == InitGenerate /\ [][NextGenerate]_vars

\* a call of generateContent settles
GenerateContentSettles == GenerateContentResolves \/ GenerateContentRejects

\* the handler runs once the request is in, and every generateContent call
\* it awaits resolves or rejects
SpecGenerateFair ==
    SpecGenerate /\ WF_vars(GeneratePOST) /\ WF_vars(GenerateContentSettles)

(***************************************************************************)
(* src/app/page.tsx: the page.  Its handlers run one at a time; a fetch    *)
(* and a Papa.parse are under way between the handler that starts them and *)
(* the callback that receives their outcome, and any other handler may run *)
(* in between.  A button that is disabled, or not rendered, cannot be      *)
(* clicked.  The search box stays empty, so the list offers the first      *)
(* OptionLimit rows.                                                       *)
(***************************************************************************)
\* rows as Papa.parse yields them with header: true: every cell is a string
EmptyRow == Obj(<< >>)
SalesRow ==
    Obj(<<Prop("Department", Str("Sales")), Prop("Attrition", Str("Yes")),
          Prop("Age", Str("3"))>>)
ResearchRow ==
    Obj(<<Prop("Department", Str("R&D")), Prop("Attrition", Str("No")),
          Prop("Age", Str("1"))>>)

\* page.tsx 39: results.data of the bundled sample
SampleDataset == <<SalesRow, EmptyRow, ResearchRow>>

\* results.data of the files the user can upload
Files == {<<EmptyRow>>, <<SalesRow>>, SampleDataset}

\* page.tsx 62-64, updateStatus: the tone is kept, the message is not
updateStatus(tone) == pageStatus' = Str(tone)

\* page.tsx 98
validRowsOf(rows) ==
    LET hasKeys(row) == Len(ObjectKeys(row)) > 0 IN SelectSeq(rows, hasKeys)

\* mutant: the selection outlives the dataset it was made in
handleParsedDataKeepsSelection(rows) ==
    /\ csvData' = validRowsOf(rows)
    /\ selectedIndex' = selectedIndex
    /\ analysis' = NoAnalysis
    /\ strategies' = NoStrategies

\* page.tsx 96-104 with resetState (90-94) in line; setStatus(null) is
\* left to the caller, ParseComplete, which sets the status next (118, 135)
handleParsedData(rows) ==
    /\ csvData' = validRowsOf(rows)
    /\ selectedIndex' = IF Len(validRowsOf(rows)) # 0 THEN Num(0) ELSE Null
    /\ analysis' = NoAnalysis
    /\ strategies' = NoStrategies

\* page.tsx 106-125: a file is chosen and Papa.parse starts on it
handleFileUpload ==
    /\ \E file \in Files :
         /\ Cardinality(parsing \cup {file}) <= MaxParsing
         /\ parsing' = parsing \cup {file}
    /\ updateStatus("info")
    /\ UNCHANGED <<csvData, selectedIndex, analysis, strategies, isAnalyzing, isGenerating, fetches>>
    /\ UNCHANGED <<analyzeVars, generateVars>>

\* page.tsx 127-142
loadSampleDataset ==
    /\ Cardinality(parsing \cup {SampleDataset}) <= MaxParsing
    /\ parsing' = parsing \cup {SampleDataset}
    /\ updateStatus("info")
    /\ UNCHANGED <<csvData, selectedIndex, analysis, strategies, isAnalyzing, isGenerating, fetches>>
    /\ UNCHANGED <<analyzeVars, generateVars>>

\* page.tsx 116-119 and 133-136: the complete callback of Papa.parse
ParseComplete ==
    /\ \E file \in parsing :
         /\ parsing' = parsing \ {file}
         /\ handleParsedData(file)
    /\ updateStatus("success")
    /\ UNCHANGED <<isAnalyzing, isGenerating, fetches>>
    /\ UNCHANGED <<analyzeVars, generateVars>>

\* page.tsx 120-123 and 137-140: the error callback of Papa.parse
ParseError ==
    /\ \E file \in parsing : parsing' = parsing \ {file}
    /\ updateStatus("error")
    /\ UNCHANGED <<csvData, selectedIndex, analysis, strategies, isAnalyzing, isGenerating, fetches>>
    /\ UNCHANGED <<analyzeVars, generateVars>>

\* page.tsx 80: employeeOptions.slice(0, 25)
OptionLimit == 25

\* page.tsx 66-86: the index of every option the list shows
filteredEmployees ==
    {index \in 0..(Len(csvData) - 1) : index < OptionLimit}

\* page.tsx 305: event.target.value ? Number(event.target.value) : null
selectionOf(value) ==
    IF value = "" THEN Null
    ELSE LET parsed == NumberOf(value) IN
         CASE parsed.kind = "finite" -> Num(parsed.n)
           [] parsed.kind = "infinite" -> Infinite
           [] OTHER -> NaN

\* page.tsx 303-314: an option of the select is chosen, the placeholder
\* ("") or an employee, whose value attribute is the index as a string
SelectOnChange ==
    /\ \E value \in {""} \cup {JSString(Num(index)) : index \in filteredEmployees} :
         selectedIndex' = selectionOf(value)
    /\ UNCHANGED <<csvData, analysis, strategies, pageStatus, isAnalyzing, isGenerating, parsing, fetches>>
    /\ UNCHANGED <<analyzeVars, generateVars>>

\* page.tsx 319-327: an item of the list is clicked
ListItemOnClick ==
    /\ \E index \in filteredEmployees : selectedIndex' = Num(index)
    /\ UNCHANGED <<csvData, analysis, strategies, pageStatus, isAnalyzing, isGenerating, parsing, fetches>>
    /\ UNCHANGED <<analyzeVars, generateVars>>

\* a request of the page that waits for its response
Fetch(url, payload) == [url |-> url, body |-> payload]

\* page.tsx 158: JSON.stringify({ dataset: csvData, index: selectedIndex })
analyzeBody == Payload(ArrayOf(csvData), Index(selectedIndex.n, FALSE))

\* page.tsx 190: JSON.stringify({ employee: analysis.employee, analysis })
generateBody == [employee |-> analysis.employee, analysis |-> analysis]

\* page.tsx 364-367 and 144-159: the Analyze button is clicked
analyzeSelectedEmployee ==
    /\ ~(Len(csvData) = 0 \/ selectedIndex = Null \/ isAnalyzing)
    /\ IF Len(csvData) = 0 \/ selectedIndex = Null
       THEN /\ updateStatus("error")
            /\ UNCHANGED <<isAnalyzing, strategies, fetches>>
       ELSE /\ isAnalyzing' = TRUE
            /\ updateStatus("info")
            /\ strategies' = NoStrategies
            /\ fetches' = fetches \cup {Fetch("/api/analyze", analyzeBody)}
    /\ UNCHANGED <<csvData, selectedIndex, analysis, isGenerating, parsing>>
    /\ UNCHANGED <<analyzeVars, generateVars>>

\* what the server, or a gateway in front of it, answers to an analyze
\* request: the response of the route, or an error status without a body
\* the page understands
analyzeAnswers(payload) ==
    {handle(payload).response, errorResponse(502, "Bad Gateway")}

\* page.tsx 161-168 and 172-174: the response is ok
AnalyzeResponseOk ==
    /\ \E f \in fetches :
         /\ f.url = "/api/analyze"
         /\ \E answer \in analyzeAnswers(f.body) :
              /\ answer.status = 200
              /\ analysis' = answer
         /\ fetches' = fetches \ {f}
    /\ updateStatus("success")
    /\ isAnalyzing' = FALSE
    /\ UNCHANGED <<csvData, selectedIndex, strategies, isGenerating, parsing>>
    /\ UNCHANGED <<analyzeVars, generateVars>>

\* page.tsx 163-165 and 169-174: the response has an error status
AnalyzeResponseNotOk ==
    /\ \E f \in fetches :
         /\ f.url = "/api/analyze"
         /\ \E answer \in analyzeAnswers(f.body) : answer.status # 200
         /\ fetches' = fetches \ {f}
    /\ updateStatus("error")
    /\ isAnalyzing' = FALSE
    /\ UNCHANGED <<csvData, selectedIndex, analysis, strategies, isGenerating, parsing>>
    /\ UNCHANGED <<analyzeVars, generateVars>>

\* mutant: the flag is cleared at the end of the try block only
AnalyzeRequestThrowsNoFinally ==
    /\ \E f \in fetches :
         /\ f.url = "/api/analyze"
         /\ fetches' = fetches \ {f}
    /\ updateStatus("error")
    /\ UNCHANGED <<csvData, selectedIndex, analysis, strategies, isAnalyzing, isGenerating, parsing>>
    /\ UNCHANGED <<analyzeVars, generateVars>>

\* page.tsx 155-161 and 169-174: fetch rejects or response.json() throws
AnalyzeRequestThrows ==
    /\ \E f \in fetches :
         /\ f.url = "/api/analyze"
         /\ fetches' = fetches \ {f}
    /\ updateStatus("error")
    /\ isAnalyzing' = FALSE
    /\ UNCHANGED <<csvData, selectedIndex, analysis, strategies, isGenerating, parsing>>
    /\ UNCHANGED <<analyzeVars, generateVars>>

\* page.tsx 375, 439-443 and 177-191: the Generate button, which is part of
\* the insights section, is clicked
generateRetentionStrategies ==
    /\ analysis # NoAnalysis
    /\ ~isGenerating
    /\ IF analysis = NoAnalysis
       THEN /\ updateStatus("error")
            /\ UNCHANGED <<isGenerating, fetches>>
       ELSE /\ isGenerating' = TRUE
            /\ updateStatus("info")
            /\ fetches' = fetches \cup {Fetch("/api/generate", generateBody)}
    /\ UNCHANGED <<csvData, selectedIndex, analysis, strategies, isAnalyzing, parsing>>
    /\ UNCHANGED <<analyzeVars, generateVars>>

\* payload.strategy of an ok response: a text, or nothing
StrategyTexts == {Str("1. Offer a mentoring plan."), Undefined}

\* page.tsx 193-203 and 207-209: the response is ok
GenerateResponseOk ==
    /\ \E f \in fetches :
         /\ f.url = "/api/generate"
         /\ \E strategy \in StrategyTexts :
              strategies' = Strategies(Coalesce(strategy, Str("")),
                                       f.body.analysis)
         /\ fetches' = fetches \ {f}
    /\ updateStatus("success")
    /\ isGenerating' = FALSE
    /\ UNCHANGED <<csvData, selectedIndex, analysis, isAnalyzing, parsing>>
    /\ UNCHANGED <<analyzeVars, generateVars>>

\* page.tsx 195-197 and 204-209: the response has an error status
GenerateResponseNotOk ==
    /\ \E f \in fetches :
         /\ f.url = "/api/generate"
         /\ fetches' = fetches \ {f}
    /\ updateStatus("error")
    /\ isGenerating' = FALSE
    /\ UNCHANGED <<csvData, selectedIndex, analysis, strategies, isAnalyzing, parsing>>
    /\ UNCHANGED <<analyzeVars, generateVars>>

\* page.tsx 187-193 and 204-209: fetch rejects or response.json() throws
GenerateRequestThrows ==
    /\ \E f \in fetches :
         /\ f.url = "/api/generate"
         /\ fetches' = fetches \ {f}
    /\ updateStatus("error")
    /\ isGenerating' = FALSE
    /\ UNCHANGED <<csvData, selectedIndex, analysis, strategies, isAnalyzing, parsing>>
    /\ UNCHANGED <<analyzeVars, generateVars>>

\* page.tsx 53-60: the page is mounted; no server code runs in this module
InitPage ==
    /\ body = NoBody
    /\ response = NoResponse
    /\ steps = << >>
    /\ heap = {}
    /\ history = << >>
    /\ fnIn = NoCall
    /\ fnOut = -1
    /\ generateIdle
    /\ pageIdle

AnalyzeSettles ==
    \/ AnalyzeRequestThrows
    \/ AnalyzeResponseNotOk
    \/ AnalyzeResponseOk

GenerateSettles ==
    \/ GenerateRequestThrows
    \/ GenerateResponseNotOk
    \/ GenerateResponseOk

NextPage ==
    \/ handleFileUpload
    \/ loadSampleDataset
    \/ ParseComplete
    \/ ParseError
    \/ SelectOnChange
    \/ ListItemOnClick
    \/ analyzeSelectedEmployee
    \/ AnalyzeSettles
    \/ generateRetentionStrategies
    \/ GenerateSettles

SpecPage == InitPage /\ [][NextPage]_vars

\* every request the page sent is answered or fails: the fetch settles
SpecPageFair ==
    SpecPage /\ WF_vars(AnalyzeSettles) /\ WF_vars(GenerateSettles)

(***************************************************************************)
(* Properties of POST /api/analyze.                                        *)
(***************************************************************************)
served == response.status # 0
rows == body.dataset.rows
isArrayAndNumber == body.dataset.isArray /\ body.index.t = "number"

\* twice the index, so that halves are integers
twiceIndex == 2 * body.index.whole + (IF body.index.half THEN 1 ELSE 0)

\* a non-empty dataset and an integer index within it
validRequest ==
    /\ isArrayAndNumber
    /\ Len(rows) > 0
    /\ ~body.index.half
    /\ body.index.whole \in 0..(Len(rows) - 1)

Min(a, b) == IF a < b THEN a ELSE b

\* C1: a request whose dataset is empty, or whose index is below 0 or at
\* least the dataset's length, is answered 400 with an error body only, and
\* nothing beyond validation ran: no statistics, no classification, no
\* distances, no write.
C1_InvalidRejectedBeforeComputing ==
    (/\ served
     /\ isArrayAndNumber
     /\ (Len(rows) = 0 \/ twiceIndex < 0 \/ twiceIndex >= 2 * Len(rows)))
    => /\ response.status = 400
       /\ response.keys = {"error"}
       /\ steps = <<"validate">>
       /\ heap = {}

\* C1 witness: index = |dataset| on a non-empty dataset was rejected
C1_Witness ==
    /\ served
    /\ isArrayAndNumber
    /\ Len(rows) > 0
    /\ ~body.index.half
    /\ body.index.whole = Len(rows)
    /\ response.status = 400

\* C2: a numeric index that is not an integer (0.5) is refused with a client
\* error, never answered with a success or an internal failure.
C2_NonIntegerIndexRefused ==
    (served /\ isArrayAndNumber /\ Len(rows) > 0 /\ body.index.half)
    => response.status \in 400..499

\* C3: for a valid request the neighbour list has min(10, |D| - 1) entries,
\* none is the target, no index occurs twice, and distances never decrease.
C3_NeighborListShape ==
    (served /\ validRequest)
    => LET similar == response.similar IN
       /\ response.status = 200
       /\ Len(similar) = Min(10, Len(rows) - 1)
       /\ \A p \in 1..Len(similar) : similar[p].index # body.index.whole
       /\ \A p, q \in 1..Len(similar) :
            p < q =>
                /\ similar[p].index # similar[q].index
                /\ similar[p].distance.den = similar[q].distance.den
                /\ similar[p].distance.num <= similar[q].distance.num

\* C3 witness: a dataset of more than 11 records gave exactly 10 neighbours,
\* not all at the same distance
C3_Witness ==
    /\ served
    /\ validRequest
    /\ Len(rows) > 11
    /\ Len(response.similar) = 10
    /\ response.similar[1].distance.num < response.similar[10].distance.num

\* the squared distance of record j (counted from 0) to the target
distanceTo(j) ==
    LET numericCols == numericColsOf(rows)
        width == Len(numericCols)
        numericMatrix == numericMatrixOf(rows, numericCols)
    IN  distanceSquared(centeredOf(numericMatrix, width),
                        squaresOf(numericMatrix, width), width,
                        j + 1, body.index.whole + 1)

\* (distance, index) of i ranks before that of j
ranksBefore(di, i, dj, j) == di.num < dj.num \/ (di.num = dj.num /\ i < j)

\* C4: the neighbour list is the first 10 of the ranking of all non-target
\* records by (distance ascending, index ascending): entries are in that
\* order, and every record left out ranks after every entry.
C4_RankingWithIndexTieBreak ==
    (served /\ validRequest /\ response.status = 200)
    => LET similar == response.similar
           listed == {similar[p].index : p \in 1..Len(similar)}
           others == (0..(Len(rows) - 1)) \ {body.index.whole}
       IN  /\ listed \subseteq others
           /\ \A p \in 1..Len(similar) :
                similar[p].distance = distanceTo(similar[p].index)
           /\ \A p, q \in 1..Len(similar) :
                p < q => ranksBefore(similar[p].distance, similar[p].index,
                                     similar[q].distance, similar[q].index)
           /\ \A j \in others \ listed : \A p \in 1..Len(similar) :
                ranksBefore(similar[p].distance, similar[p].index,
                            distanceTo(j), j)

\* C4 witness: two neighbours tie, and a record that ties with the last
\* entry was left out
C4_Witness ==
    /\ served
    /\ validRequest
    /\ response.status = 200
    /\ Len(response.similar) = 10
    /\ \E p \in 1..9 :
        response.similar[p].distance = response.similar[p + 1].distance
    /\ \E j \in (0..(Len(rows) - 1)) \ {body.index.whole} :
        /\ \A p \in 1..10 : response.similar[p].index # j
        /\ distanceTo(j) = response.similar[10].distance

\* the record's Attrition value, as text in lower case, is yes, 1 or true
countsAsAttrited(row) ==
    LET value == Get(row, "Attrition") IN
    /\ value.t \notin {"undefined", "null"}
    /\ toLowerCase(JSString(value)) \in {"yes", "1", "true"}

attritedRecords == {r \in 1..Len(rows) : countsAsAttrited(rows[r])}

\* h hundredths is 100 * part / whole rounded to two decimals
isRounded(h, part, whole) ==
    /\ 2 * (h * whole - 10000 * part) <= whole
    /\ 2 * (10000 * part - h * whole) <= whole

\* C5: the overall attrition rate is 100 * (records whose Attrition text,
\* lower-cased, is yes, 1 or true) / (all records), rounded to two decimals;
\* other and missing values are not counted.
C5_AttritionRateFormula ==
    (served /\ response.status = 200)
    => /\ response.summary.total = Len(rows)
       /\ isRounded(response.summary.attritionRate,
                    Cardinality(attritedRecords), Len(rows))

\* C5 witness: a rate that had to be rounded, from records spelling the
\* value in upper case and as a boolean, next to values that do not count
C5_Witness ==
    /\ served
    /\ response.status = 200
    /\ response.summary.attritionRate = 6667
    /\ \E r \in attritedRecords : Get(rows[r], "Attrition") = Str("TRUE")
    /\ \E r \in attritedRecords : Get(rows[r], "Attrition") = Bool(TRUE)
    /\ \E r \in 1..Len(rows) : Get(rows[r], "Attrition") = Str("yes ")

\* C6 as stated: the rate is in [0, 100], 0 exactly when no record is
\* attrited and 100 exactly when every record is.
C6_ZeroAndHundredExactly ==
    (fnOut # -1)
    => /\ fnOut \in 0..10000
       /\ (fnOut = 0 <=> fnIn.count = 0)
       /\ (fnOut = 10000 <=> fnIn.count = fnIn.total)

\* C6 amended: the rate is in [0, 100]; it is 0 when no record is attrited
\* and 100 when every record is; a reported 0 only tells that at most 0.005%
\* of the records are attrited, a reported 100 that at most 0.005% are not.
C6_RateRange ==
    (fnOut # -1)
    => /\ fnOut \in 0..10000
       /\ (fnIn.count = 0 => fnOut = 0)
       /\ (fnIn.count = fnIn.total => fnOut = 10000)
       /\ (fnOut = 0 => 20000 * fnIn.count <= fnIn.total)
       /\ (fnOut = 10000 =>
            20000 * (fnIn.total - fnIn.count) <= fnIn.total)

\* C6 witness: one attrited record among more than 20000 is reported as 0
C6_Witness ==
    /\ fnOut = 0
    /\ fnIn.count = 1
    /\ fnIn.total > 20000

\* the department label of a record: its Department as text, or the fixed
\* label when that is null or absent
labelOf(row) ==
    LET value == Get(row, "Department") IN
    IF value.t \in {"undefined", "null"} THEN "Unknown Department"
    ELSE JSString(value)

labels == {labelOf(rows[r]) : r \in 1..Len(rows)}
membersOf(label) == {r \in 1..Len(rows) : labelOf(rows[r]) = label}
firstSeen(label) ==
    CHOOSE r \in membersOf(label) : \A o \in membersOf(label) : r <= o

\* the attrition rate among the records of a department, in hundredths
rateOf(label) ==
    (20000 * Cardinality(membersOf(label) \cap attritedRecords)
        + Cardinality(membersOf(label)))
    \div (2 * Cardinality(membersOf(label)))

\* C7: at most 5 summaries, each rate in [0, 100], rates never increasing,
\* and no department left out has a strictly higher rate than one listed.
C7_TopDepartments ==
    (served /\ response.status = 200)
    => LET top == response.summary.topDepartments
           listed == {top[p].department : p \in 1..Len(top)}
       IN  /\ Len(top) <= 5
           /\ \A p \in 1..Len(top) : top[p].attritionRate \in 0..10000
           /\ \A p, q \in 1..Len(top) :
                p < q => top[p].attritionRate >= top[q].attritionRate
           /\ \A label \in labels \ listed : \A p \in 1..Len(top) :
                rateOf(label) <= top[p].attritionRate

\* C8: summaries with equal rates appear in the order in which their labels
\* were first met in the dataset, whatever the labels are.
C8_TiesInFirstSeenOrder ==
    (served /\ response.status = 200)
    => LET top == response.summary.topDepartments IN
       \A p, q \in 1..Len(top) :
            (/\ p < q
             /\ top[p].attritionRate = top[q].attritionRate
             /\ top[p].department \in labels
             /\ top[q].department \in labels)
            => firstSeen(top[p].department) < firstSeen(top[q].department)

\* C9: before truncation there is exactly one summary per department label
\* of the dataset, with the number of its records as count and
\* 100 * attrited / count as rate; the counts add up to the record count.
C9_OneSummaryPerDepartment ==
    (served /\ response.status = 200)
    => LET all == departmentSummaries(statistics(rows).departmentStats) IN
       /\ {all[p].department : p \in 1..Len(all)} = labels
       /\ Len(all) = Cardinality(labels)
       /\ \A p \in 1..Len(all) :
            /\ all[p].count = Cardinality(membersOf(all[p].department))
            /\ all[p].attritionRate = rateOf(all[p].department)
       /\ SumTo([p \in 1..Len(all) |-> all[p].count], Len(all)) = Len(rows)

\* position of a key in a duplicate-free sequence of keys
positionIn(keys, key) == CHOOSE i \in 1..Len(keys) : keys[i] = key

\* C10: the numeric column list holds no column twice, holds only keys of
\* the first record, and lists them in the first record's key order; a
\* column the first record lacks is never selected.
C10_NumericColsFromFirstRecord ==
    (served /\ response.status = 200)
    => LET numericCols == response.summary.numericCols
           firstKeys == ObjectKeys(rows[1])
       IN  /\ \A p \in 1..Len(numericCols) :
                \E i \in 1..Len(firstKeys) : firstKeys[i] = numericCols[p]
           /\ \A p, q \in 1..Len(numericCols) :
                p < q => positionIn(firstKeys, numericCols[p])
                            < positionIn(firstKeys, numericCols[q])

\* C10 witness: Salary is a number in every record but the first, which
\* lacks it, and it was not selected while another column was
C10_Witness ==
    /\ served
    /\ response.status = 200
    /\ Len(rows) >= 3
    /\ Get(rows[1], "Salary") = Undefined
    /\ \A r \in 2..Len(rows) : Get(rows[r], "Salary").t = "number"
    /\ Len(response.summary.numericCols) >= 1
    /\ \A p \in 1..Len(response.summary.numericCols) :
        response.summary.numericCols[p] # "Salary"

(***************************************************************************)
(* Properties of the numeric column classification, route.ts 102-107.      *)
(***************************************************************************)
\* the spellings of the identifier columns that occur in the inputs
IdentifierSpellings ==
    {"EmployeeNumber", "employeenumber", "EMPLOYEEID", "employeeid"}

\* the records whose value in the column is numeric-like
numericLikeRecords(column) ==
    {r \in 1..Len(rows) : isNumericLike(Get(rows[r], column))}

\* C11: a column named employeenumber or employeeid, in any letter case, is
\* never in numericCols, even when every record holds a number in it.
C11_IdentifierColumnsExcluded ==
    (served /\ response.status = 200)
    => \A p \in 1..Len(response.summary.numericCols) :
         response.summary.numericCols[p] \notin IdentifierSpellings

\* C11 witness: both identifier columns hold a number in every record, and
\* the response selected another column but neither of them
C11_Witness ==
    /\ served
    /\ response.status = 200
    /\ Len(rows) >= 2
    /\ numericLikeRecords("EmployeeNumber") = 1..Len(rows)
    /\ numericLikeRecords("EMPLOYEEID") = 1..Len(rows)
    /\ response.summary.numericCols = <<"Age">>

\* the column is in the response's numericCols
selected(column) ==
    \E p \in 1..Len(response.summary.numericCols) :
        response.summary.numericCols[p] = column

\* the keys of the first record that are not identifier columns
candidates ==
    {column \in {ObjectKeys(rows[1])[i] : i \in 1..Len(ObjectKeys(rows[1]))} :
        column \notin IdentifierSpellings}

\* C12: a candidate column that is not an identifier column is selected
\* exactly when its numeric-like records are at least 70% of all records,
\* records without the column included in the total; 7 of 10 is selected,
\* 2 of 3 is not.
C12_SeventyPercentThreshold ==
    (served /\ response.status = 200)
    => \A column \in candidates :
         LET count == Cardinality(numericLikeRecords(column))
             total == Len(rows)
         IN  /\ selected(column) <=> 10 * count >= 7 * total
             /\ (count = 7 /\ total = 10) => selected(column)
             /\ (count = 2 /\ total = 3) => ~selected(column)

\* C12 witness: Age is numeric-like in exactly 7 of 10 records, one of the
\* other three lacks the column, and Age was selected
C12_Witness ==
    /\ served
    /\ response.status = 200
    /\ Len(rows) = 10
    /\ Cardinality(numericLikeRecords("Age")) = 7
    /\ \E r \in 1..Len(rows) : Get(rows[r], "Age") = Undefined
    /\ selected("Age")

(***************************************************************************)
(* Properties of the degenerate cases and of the response as a whole.      *)
(***************************************************************************)
\* no candidate column reaches the 70% share
noColumnQualifies ==
    \A column \in candidates :
        10 * Cardinality(numericLikeRecords(column)) < 7 * Len(rows)

\* the indices 0..|D|-1 without the target, ascending
RECURSIVE othersFrom(_)
othersFrom(j) ==
    IF j >= Len(rows) THEN << >>
    ELSE IF j = body.index.whole THEN othersFrom(j + 1)
    ELSE <<j>> \o othersFrom(j + 1)

\* C13: when no column qualifies as numeric a valid request still succeeds,
\* every listed distance is 0, and the neighbours are the first
\* min(10, |D| - 1) records other than the target, in ascending index order.
C13_NoNumericColumn ==
    (served /\ validRequest /\ noColumnQualifies)
    => LET similar == response.similar
           others == othersFrom(0)
       IN  /\ response.status = 200
           /\ response.summary.numericCols = << >>
           /\ Len(similar) = Min(10, Len(rows) - 1)
           /\ \A p \in 1..Len(similar) :
                /\ similar[p].distance.num = 0
                /\ similar[p].index = others[p]

\* C13 witness: more than 11 records whose first one has keys, none of them
\* a numeric column; the target is among the first ten records and the list
\* runs past it
C13_Witness ==
    /\ served
    /\ validRequest
    /\ noColumnQualifies
    /\ Len(rows) > 11
    /\ candidates # {}
    /\ body.index.whole = 4
    /\ Len(response.similar) = 10
    /\ response.similar[4].index = 3
    /\ response.similar[5].index = 5
    /\ response.similar[10].index = 10

\* C14: a request with a non-empty dataset and an integer index within it
\* is answered with a success response (summary, employee, similar) and
\* never with an error, whatever the cells hold.
C14_ValidRequestSucceeds ==
    (served /\ validRequest)
    => /\ response.status = 200
       /\ response.keys = {"summary", "employee", "similar"}
       /\ response.error = ""
       /\ steps[Len(steps)] = "respond"

\* C14 witness: Age was selected although one record holds an unparsable
\* string in it, one a boolean and one record is null; the request succeeded
C14_Witness ==
    /\ served
    /\ validRequest
    /\ response.status = 200
    /\ selected("Age")
    /\ \E r \in 1..Len(rows) : Get(rows[r], "Age") = Str("abc")
    /\ \E r \in 1..Len(rows) : Get(rows[r], "Age").t = "boolean"
    /\ \E r \in 1..Len(rows) : rows[r] = NullRow

\* dataset[index] of the request: the record at that position, undefined
\* when the index is not the position of a record
selectedRecord ==
    IF ~body.index.half /\ body.index.whole \in 0..(Len(rows) - 1)
    THEN rows[body.index.whole + 1]
    ELSE UndefinedRow

\* what C16 requires of a success response
successEchoesInput ==
    (served /\ response.status = 200)
    => /\ response.summary.total = Len(rows)
       /\ response.employee = selectedRecord
       /\ \A p \in 1..Len(response.similar) :
            LET entry == response.similar[p] IN
            /\ entry.index \in 0..(Len(rows) - 1)
            /\ entry.row = rows[entry.index + 1]
            /\ entry.distance.num >= 0
            /\ entry.distance.den > 0

\* C16: in a success response total is the number of records, employee is
\* the record dataset[index], every neighbour entry carries the record at
\* its own index, an index of the dataset and a distance that is not
\* negative; serving the request leaves the dataset as it was.
C16_SuccessEchoesInput ==
    /\ []successEchoesInput
    /\ [][body' = body]_vars

\* C16 witness: a success response whose neighbours are not in index order
\* and carry different records, the target not being the first record
C16_Witness ==
    /\ served
    /\ validRequest
    /\ response.status = 200
    /\ body.index.whole > 0
    /\ response.employee # rows[1]
    /\ Len(response.similar) >= 2
    /\ response.similar[1].index > response.similar[2].index
    /\ response.similar[1].row # response.similar[2].row

\* C17: scenario A (Sales/Yes/30, Sales/No/40, R&D/No/35, index 0) is
\* answered with total 3, attritionRate 33.33 and topDepartments listing
\* Sales (50.00, 2 records) before R&D (0.00, 1 record).
C17_ScenarioA ==
    (served /\ body = Payload(ArrayOf(ScenarioA), Index(0, FALSE)))
    => /\ response.status = 200
       /\ response.summary.total = 3
       /\ response.summary.attritionRate = 3333
       /\ response.summary.topDepartments =
            << [department |-> "Sales", count |-> 2, attritionRate |-> 5000],
               [department |-> "R&D", count |-> 1, attritionRate |-> 0] >>

\* C17 witness: the request of scenario A was served
C17_Witness ==
    /\ served
    /\ rows = ScenarioA
    /\ body.index = Index(0, FALSE)
    /\ response.status = 200
    /\ response.employee = ScenarioA[1]
    /\ Len(response.summary.topDepartments) = 2

(***************************************************************************)
(* Properties of the normalisation, route.ts 109-143.                      *)
(***************************************************************************)
\* the coerced value of record r (counted from 1) in a column
coerced(r, column) == toNumber(Get(rows[r], column))

\* n^2 times the population variance of a column: with S the sum of the
\* coerced values and Q the sum of their squares, the mean is S / n and the
\* variance Q / n - (S / n)^2
spreadOf(column) ==
    LET n == Len(rows)
        S == SumTo([r \in 1..n |-> coerced(r, column)], n)
        Q == SumTo([r \in 1..n |-> coerced(r, column) * coerced(r, column)], n)
    IN  n * Q - S * S

\* the square of (z(r) - z(target)) in a column as a fraction, z being
\* (raw - mean) / std with a std of 0 replaced by 1
zDiffSquared(r, column) ==
    LET n == Len(rows)
        d == coerced(r, column) - coerced(body.index.whole + 1, column)
    IN  IF spreadOf(column) > 0
        THEN [num |-> n * n * d * d, den |-> spreadOf(column)]
        ELSE [num |-> d * d, den |-> 1]

\* the fraction equals the sum of the columns' squared z differences
isZDistance(distance, r, numericCols) ==
    /\ \A c \in 1..Len(numericCols) :
            distance.den % zDiffSquared(r, numericCols[c]).den = 0
    /\ distance.num =
        SumTo([c \in 1..Len(numericCols) |->
                zDiffSquared(r, numericCols[c]).num
                    * (distance.den \div zDiffSquared(r, numericCols[c]).den)],
              Len(numericCols))

\* C23: per numeric column the mean is the sum of the coerced values of all
\* records over the record count, the standard deviation is the population
\* one, replaced by 1 when it is 0, and a normalized value is
\* (raw - mean) / std: every reported distance is the Euclidean distance
\* between the record's and the target's values normalized that way.
C23_PopulationZScores ==
    (served /\ validRequest /\ response.status = 200)
    => \A p \in 1..Len(response.similar) :
         isZDistance(response.similar[p].distance,
                     response.similar[p].index + 1,
                     response.summary.numericCols)

\* C23 witness: more than ten records, Age selected although a record holds
\* "abc" in it and a record is null, and neighbours at different distances
C23_Witness ==
    /\ served
    /\ validRequest
    /\ response.status = 200
    /\ Len(rows) > 10
    /\ selected("Age")
    /\ \E r \in 1..Len(rows) : Get(rows[r], "Age") = Str("abc")
    /\ \E r \in 1..Len(rows) : rows[r] = NullRow
    /\ response.similar[1].distance.num > 0
    /\ response.similar[1].distance.num < response.similar[10].distance.num

\* every record holds the same number in the column
isConstant(column) ==
    \A r \in 1..Len(rows) :
        /\ Get(rows[r], column).t = "number"
        /\ Get(rows[r], column) = Get(rows[1], column)

\* the record without the column
without(row, column) ==
    IF row.kind # "object" THEN row
    ELSE Obj(SelectSeq(row.props, LAMBDA prop : prop.k # column))

\* the response to the same request over the dataset without the column
responseWithout(column) ==
    handle(Payload(ArrayOf([r \in 1..Len(rows) |-> without(rows[r], column)]),
                   body.index)).response

sameFraction(a, b) == a.num * b.den = b.num * a.den

SessionPool == <<
    Obj(<<Prop("Department", Str("__proto__")), Prop("Attrition", Str("Yes")),
          Prop("count", Num(1))>>),
    Obj(<<Prop("Department", Str("count")), Prop("Attrition", Str("No"))>>),
    Obj(<<Prop("Department", Str("constructor")),
          Prop("Attrition", Str("Yes")), Prop("count", Num(3))>>),
    Obj(<<Prop("Department", Str("Sales")), Prop("Attrition", Str("No")),
          Prop("count", Num(2))>>)
>>

SessionRows == {SessionPool[p] : p \in 1..Len(SessionPool)}

\* valid requests over the session records
SessionBodies ==
    UNION {{Payload(ArrayOf(d), Index(i, FALSE)) : i \in 0..(Len(d) - 1)} :
            d \in UNION {[1..k -> SessionRows] : k \in 1..MaxSessionRows}}

InitSession ==
    /\ body = NoBody
    /\ response = NoResponse
    /\ steps = << >>
    /\ heap = {}
    /\ history = << >>
    /\ fnIn = NoCall
    /\ fnOut = -1
    /\ generateIdle
    /\ pageIdle

\* POST /api/analyze serves one more request of the same process
ServePOST ==
    /\ Len(history) < MaxRequests
    /\ \E b \in SessionBodies :
         LET out == handle(b) IN
            /\ body' = b
            /\ response' = out.response
            /\ steps' = out.steps
            /\ heap' = heap \cup out.writes
            /\ history' = Append(history, [body |-> b, response |-> out.response])
    /\ UNCHANGED <<fnIn, fnOut>>
    /\ UNCHANGED generateVars
    /\ UNCHANGED pageVars

NextSession == ServePOST

SpecSession == InitSession /\ [][NextSession]_vars

\* requests with the same body were given the same response
sameInputSameOutput ==
    \A i, j \in 1..Len(history) :
        history[i].body = history[j].body
            => history[i].response = history[j].response

\* C15: the response depends on the request's dataset and index only, the
\* same input gets the same output whatever was served before, and a
\* request leaves nothing behind on objects that later requests share.
C15_NoStateBetweenInvocations ==
    /\ sameInputSameOutput
    /\ heap = {}

(***************************************************************************)
(* Properties of POST /api/generate.                                       *)
(***************************************************************************)
\* the call was answered with the error "this model does not exist"
notFoundAt(k) ==
    service[k].outcome.kind = "error" /\ service[k].outcome.error.notFound

\* the call was answered with any other error
otherErrorAt(k) ==
    service[k].outcome.kind = "error" /\ ~service[k].outcome.error.notFound

generateEnded == gen.pc = "done"

\* C18: a candidate model is called only as the first one or right after
\* the call before it failed with model-not-found; a call that succeeds is
\* the last one and ends the request with its text and its model's name; a
\* call that fails with any other error is the last one and ends the
\* request with an error response.
C18_FallbackOnlyOnNotFound ==
    \A k \in 1..Len(service) :
        /\ k > 1 => notFoundAt(k - 1)
        /\ service[k].outcome.kind = "text"
            => /\ k = Len(service)
               /\ generateEnded
               /\ gen.response.status = 200
               /\ gen.response.keys = {"strategy", "model"}
               /\ gen.response.strategy = service[k].outcome.text
               /\ gen.response.model = service[k].model
        /\ otherErrorAt(k)
            => /\ k = Len(service)
               /\ generateEnded
               /\ gen.response.status >= 400
               /\ "error" \in gen.response.keys
               /\ "strategy" \notin gen.response.keys

\* C18 witness: two candidates were not found and the third one's text and
\* name were returned
C18_Witness ==
    /\ generateEnded
    /\ Len(service) = 3
    /\ notFoundAt(1)
    /\ notFoundAt(2)
    /\ service[3].outcome.kind = "text"
    /\ gen.response.status = 200
    /\ gen.response.model = service[3].model

\* the request ended because the service failed: the last call was
\* answered with an error
serviceFailed ==
    /\ generateEnded
    /\ service # << >>
    /\ service[Len(service)].outcome.kind = "error"

\* C19: when the request fails because of the service (an error other than
\* not-found, or every candidate not found) the error response carries
\* attempts: one entry per model called, in call order, each with the
\* message of the error that call ended with, the failing call last.
C19_AttemptsListed ==
    serviceFailed
    => /\ gen.response.status >= 400
       /\ "error" \in gen.response.keys
       /\ "attempts" \in gen.response.keys
       /\ Len(gen.response.attempts) = Len(service)
       /\ \A k \in 1..Len(service) :
            LET error == service[k].outcome.error
                attempt == gen.response.attempts[k]
            IN  /\ attempt.model = service[k].model
                /\ service[k].outcome.kind = "error"
                /\ error.isError => attempt.message = error.message
                /\ attempt.message # ""

\* C19 witness: two candidates were not found, the third call failed with
\* another error and the response lists the three attempts
C19_Witness ==
    /\ serviceFailed
    /\ Len(service) = 3
    /\ otherErrorAt(3)
    /\ Len(gen.response.attempts) = 3
    /\ gen.response.attempts[3].model = "gemini-1.5-flash-latest"
    /\ gen.response.attempts[1].message # gen.response.attempts[3].message

\* GEMINI_MODEL names a model
preferredModelSet == env.GEMINI_MODEL.set /\ trim(env.GEMINI_MODEL.value) # ""

\* C20: when GEMINI_MODEL is set and that model is reported not found, the
\* model called next is gemini-1.5-flash-latest.
C20_FallsBackToFlashLatest ==
    (/\ preferredModelSet
     /\ Len(service) >= 2
     /\ service[1].model = trim(env.GEMINI_MODEL.value)
     /\ notFoundAt(1))
    => service[2].model = "gemini-1.5-flash-latest"

(***************************************************************************)
(* Properties of the parsing rules, route.ts 37-55.                        *)
(***************************************************************************)
parsed == fnOut # NoParse

\* the number a cell value stands for: a number is itself, a string is
\* what Number() makes of it, anything else stands for no number
parsedNumberOf(value) ==
    CASE value.t = "number" ->
            IF value.s = "" THEN [kind |-> "finite", n |-> value.n]
            ELSE IF value.s = "Infinity" THEN [kind |-> "infinite", n |-> 0]
            ELSE [kind |-> "nan", n |-> 0]
      [] value.t = "string" -> NumberOf(value.s)
      [] OTHER -> [kind |-> "nan", n |-> 0]

\* C21: a value is numeric-like exactly when it is a finite number, or a
\* string that is not empty after trimming and parses to a finite number;
\* null, absent, booleans, blank strings and strings that parse to a
\* non-finite value such as "Infinity" are not.
C21_NumericLikeDefinition ==
    parsed
    => (fnOut.numericLike
        <=> \/ fnIn.t = "number" /\ fnIn.s = ""
            \/ /\ fnIn.t = "string"
               /\ trim(fnIn.s) # ""
               /\ parsedNumberOf(fnIn).kind = "finite")

\* C22: a value is numeric-like exactly when the coercion yields the
\* value's own parsed number; every other value is not numeric-like and is
\* coerced to 0, and no numeric-like value goes through the 0 fallback.
C22_SameParsingRule ==
    parsed
    => IF fnOut.numericLike
       THEN /\ parsedNumberOf(fnIn).kind = "finite"
            /\ fnOut.number = parsedNumberOf(fnIn).n
       ELSE fnOut.number = 0

(***************************************************************************)
(* Properties of the page.                                                 *)
(***************************************************************************)
\* the payloads /api/analyze computes from the dataset the page holds, one
\* for each of its rows
analysesOfLoadedDataset ==
    {handle(Payload(ArrayOf(csvData), Index(index, FALSE))).response :
        index \in 0..(Len(csvData) - 1)}

\* page.tsx 375: the insights section is rendered
analysisDisplayed == analysis # NoAnalysis

\* page.tsx 452: the recommendations section is rendered
strategiesDisplayed == strategies.text \notin {Null, Str("")}

\* C25: whatever the order of dataset loads, analyze requests and their
\* responses, the analysis the page displays was computed from the dataset
\* it holds now; a response to a request sent before the dataset was loaded
\* does not bring an analysis back.
C25_AnalysisFromLoadedDataset ==
    analysisDisplayed => analysis \in analysesOfLoadedDataset

\* C26: whatever the order of analyze and generate requests and their
\* responses, the strategies the page displays were generated from the
\* analysis it displays now; a response to a generate request sent before
\* an analysis started does not bring strategies back.
C26_StrategiesFromDisplayedAnalysis ==
    strategiesDisplayed => analysisDisplayed /\ strategies.of = analysis

\* selectedIndex is null or the index of a row of csvData
selectionInRange ==
    \/ selectedIndex = Null
    \/ /\ selectedIndex.t = "number"
       /\ selectedIndex.s = ""
       /\ selectedIndex.n \in 0..(Len(csvData) - 1)

\* the analyze requests that wait for their response
analyzeRequests == {f \in fetches : f.url = "/api/analyze"}

\* an analyze request carries at least one row and the index of one of them
wellFormed(payload) ==
    /\ payload.dataset.isArray
    /\ Len(payload.dataset.rows) > 0
    /\ payload.index.t = "number"
    /\ ~payload.index.half
    /\ payload.index.whole \in 0..(Len(payload.dataset.rows) - 1)

\* a row with at least one column
nonEmptyRow(row) == row.kind = "object" /\ row.props # << >>

\* a dataset has just been loaded from file: the first row is selected if
\* the file has a non-empty row, and nothing is selected otherwise
firstRowSelected(file) ==
    selectedIndex' = IF \E r \in 1..Len(file) : nonEmptyRow(file[r])
                     THEN Num(0) ELSE Null

\* C27: after any sequence of dataset loads and selections selectedIndex is
\* null or an integer in [0, |csvData|); it is 0 right after a dataset with
\* a non-empty row was loaded and null after one without; every analyze
\* request the page sends carries a non-empty dataset and an index in range.
C27_SelectionInRange ==
    /\ [](selectionInRange /\ \A f \in analyzeRequests : wellFormed(f.body))
    /\ [][ParseComplete => \A file \in parsing \ parsing' : firstRowSelected(file)]_vars

\* a request for the second row is under way and a dataset of one row has
\* been loaded since
C27_Witness ==
    /\ csvData = <<SalesRow>>
    /\ selectedIndex = Num(0)
    /\ \E f \in analyzeRequests : f.body.index.whole = 1

\* the generate requests that wait for their response
generateRequests == {f \in fetches : f.url = "/api/generate"}

\* an analyze request ends without an ok response
AnalyzeFails == AnalyzeResponseNotOk \/ AnalyzeRequestThrows

\* C28: provided the request completes, every analyze request that was
\* started sets isAnalyzing back to false and every generate request sets
\* isGenerating back to false, whether the response is ok, has an error
\* status or the request throws; an analyze request that fails leaves the
\* displayed analysis as it was.
C28_FlagsAreCleared ==
    /\ (analyzeRequests # {}) ~> ~isAnalyzing
    /\ (generateRequests # {}) ~> ~isGenerating
    /\ [](isAnalyzing <=> analyzeRequests # {})
    /\ [](isGenerating <=> generateRequests # {})
    /\ [][AnalyzeSettles => ~isAnalyzing']_vars
    /\ [][GenerateSettles => ~isGenerating']_vars
    /\ [][AnalyzeFails => analysis' = analysis]_vars

\* an analysis is displayed, no request is under way and the status line
\* reports an error
C28_Witness ==
    /\ analysisDisplayed
    /\ pageStatus = Str("error")
    /\ ~isAnalyzing
    /\ ~isGenerating
    /\ fetches = {}
    /\ parsing = {}
    /\ strategies = NoStrategies

(***************************************************************************)
(* Properties of POST /api/generate: the attempts and their end.           *)
(***************************************************************************)
\* the models in the order they are to be tried: the preferred model when
\* one is set, then the models of the chain other than it
expectedOrder ==
    LET preferred == trim(env.GEMINI_MODEL.value)
        other(modelName) == modelName # preferred
    IN  IF preferredModelSet
        THEN <<preferred>> \o SelectSeq(MODEL_FALLBACK_CHAIN, other)
        ELSE MODEL_FALLBACK_CHAIN

\* the attempts made so far are the first models of expectedOrder, in order
attemptsInOrder ==
    /\ Len(service) <= Len(expectedOrder)
    /\ \A k \in 1..Len(service) : service[k].model = expectedOrder[k]

\* no model was attempted twice
noModelRepeated ==
    \A j, k \in 1..Len(service) : j # k => service[j].model # service[k].model

\* the request lacks employee or analysis, or the process has no API key
notServable ==
    \/ ~gen.body.employee
    \/ ~gen.body.analysis
    \/ ~env.GOOGLE_API_KEY.set
    \/ env.GOOGLE_API_KEY.value = ""

\* such a request never reaches a model and ends with an error response
refusedWithoutAttempt ==
    notServable =>
        /\ service = << >>
        /\ generateEnded =>
              /\ gen.response.status \in {400, 500}
              /\ gen.response.keys = {"error"}

\* the handler has returned a response
generateAnswered == generateEnded /\ gen.response.status # 0

====
